---- MODULE Spec2Model ----
(***************************************************************************)
(* Device state manager of the HITS problem (gunrock/app/hits/              *)
(* hits_problem.cuh): the per-device DataSlice with its eight working       *)
(* arrays, and the Problem that owns one DataSlice per device and drives    *)
(* Init / Reset / Extract / Release over them.                              *)
(*                                                                          *)
(* Every lifecycle call is one action: the host thread runs a call to its   *)
(* return before it issues the next.  The environment's faults (a device    *)
(* that cannot be selected, an allocation or a transfer that fails) are     *)
(* inputs of the call, drawn with \E.  Fills submitted to a device's stream *)
(* are asynchronous: they wait in pending[g] until the stream runs them     *)
(* (StreamStep) or a synchronisation on that device drains them.            *)
(***************************************************************************)
EXTENDS Integers, Sequences, FiniteSets, TLC

\* ------------------------------------------------------------------ bounds
MaxGpus == 2
MaxNodes == 2
MaxWrites == 1
MaxFaults == 1

\* ------------------------------------------------------------------ values
HOST == "HOST"
DEVICE == "DEVICE"
Locs == {HOST, DEVICE}
LOCATION_ALL == {HOST, DEVICE}
Targets == {{HOST}, {DEVICE}, LOCATION_ALL}

\* An array cell holds 0 (0.0), 1 (1.0), another written value, or Undef:
\* memory that was allocated and never written (its value is indeterminate).
Undef == -1
Written == 2

Gpus == 0 .. (MaxGpus - 1)

\* The working arrays of a DataSlice, in the order the code walks them.
Arrays == <<"degrees", "visited", "hrank_curr", "arank_curr",
            "hrank_next", "arank_next", "in_degrees", "out_degrees">>
NumArrays == Len(Arrays)
ArrayNames == {Arrays[k] : k \in 1 .. NumArrays}
ArrayIndex == [a \in ArrayNames |-> CHOOSE k \in 1 .. NumArrays : Arrays[k] = a]
ArrayIdx(a) == ArrayIndex[a]

\* The host buffers a caller hands to Extract, and the array each receives.
ExtractedArray == [h_degrees |-> "degrees", h_hrank |-> "hrank_curr",
                   h_arank |-> "arank_curr"]
HostBuffers == DOMAIN ExtractedArray

\* The value Reset writes into each array.
ResetValue(a) == IF a \in {"hrank_curr", "arank_curr"} THEN 1 ELSE 0

VARIABLES
    num_gpus,         \* ProblemBase::num_gpus
    org_nodes,        \* org_graph->nodes
    partition_table,  \* org_graph->partition_table: vertex -> device
    data_slices,      \* TRUE iff Problem::data_slices != NULL
    ds,               \* data_slices[g]: the Array1D holding slice g
    arr,              \* arr[g][a][loc]: working array a of slice g at loc
    pending,          \* pending[g]: fills queued on device g's stream
    cur_dev,          \* the device the host thread has selected
    h_out,            \* the caller's host buffers handed to Extract
    leaked,           \* storage whose owner was destroyed without freeing it
    writes,           \* enactor writes done so far
    faults,           \* faults the environment has raised so far
    hits,             \* the state of a HITSProblem (the file's older variant)
    last              \* the call that returned last, and its result

vars == <<num_gpus, org_nodes, partition_table, data_slices, ds, arr, pending,
          cur_dev, h_out, leaked, writes, faults, hits, last>>

\* What no call of Problem changes: the devices, the graph, its partition.
config == <<num_gpus, org_nodes, partition_table, hits>>

\* ------------------------------------------------------------------ partition
Vertices == 0 .. (org_nodes - 1)

\* sub_graphs[g].nodes: the vertices the partitioner gave device g.
SubNodes(g) == Cardinality({v \in Vertices : partition_table[v] = g})

\* convertion_table[v]: the local index of v inside its owner's partition.
ConvertionTable(v) ==
    Cardinality({u \in Vertices : u < v /\ partition_table[u] = partition_table[v]})

ActiveGpus == 0 .. (num_gpus - 1)

\* ------------------------------------------------------------------ Array1D
\* One location of an Array1D: alloc (the array owns storage there), set (it
\* points at storage the caller owns), data (the cells).
NoBuf == [alloc |-> FALSE, set |-> FALSE, data |-> <<>>]
Buf(n) == [alloc |-> TRUE, set |-> FALSE, data |-> [i \in 1 .. n |-> Undef]]
EmptyArray == [loc \in Locs |-> NoBuf]

HasPointer(b) == b.alloc \/ b.set

\* Array1D::Allocate(n, target): fresh storage of n cells at each location
\* of target.
Array1D_Allocate(A, n, target) ==
    [loc \in Locs |-> IF loc \in target THEN Buf(n) ELSE A[loc]]

\* Array1D::Allocate failing: the host part (done first) stands when the
\* device part is the one that fails; the failing part owns nothing.
Array1D_AllocateFailed(A, n, target) ==
    [loc \in Locs |->
        IF loc \notin target THEN A[loc]
        ELSE IF loc = HOST /\ DEVICE \in target THEN Buf(n)
        ELSE NoBuf]

\* Array1D::Release(target): frees what the array owns at target; an array
\* that owns nothing there is left as it is.
Array1D_Release(A, target) ==
    [loc \in Locs |-> IF loc \in target THEN NoBuf ELSE A[loc]]

\* Array1D::EnsureSize_(n, target): storage of at least n cells at target;
\* enough storage is left alone, too little (or none) is replaced.
BufEnough(b, n) == HasPointer(b) /\ Len(b.data) >= n
Array1D_NeedsAlloc(A, n, target) == \E loc \in target : ~BufEnough(A[loc], n)
Array1D_EnsureSize(A, n, target) ==
    [loc \in Locs |->
        IF loc \in target /\ ~BufEnough(A[loc], n) THEN Buf(n) ELSE A[loc]]
Array1D_EnsureSizeFailed(A, n, target) ==
    [loc \in Locs |->
        IF loc \notin target \/ BufEnough(A[loc], n) THEN A[loc]
        ELSE IF loc = HOST /\ DEVICE \in target THEN Buf(n)
        ELSE NoBuf]

\* The effect of ForEach(x = v, n, loc) on one location: the first n cells.
FillBuf(b, n, v) ==
    [b EXCEPT !.data = [i \in 1 .. Len(b.data) |-> IF i <= n THEN v ELSE b.data[i]]]

\* ------------------------------------------------------------------ faults
\* A fault is <<g, s>>: step s of the call fails while it works on device g.
\* NoFault: the environment lets every step succeed.  BaseFault: the base
\* class's step (BaseProblem::Init, the partitioning) fails.
NoFault == <<-1, 0>>
BaseFault == <<-1, 1>>

\* The environment raises at most MaxFaults faults in one run.
Raise(fault) ==
    /\ fault # NoFault => faults < MaxFaults
    /\ faults' = IF fault = NoFault THEN faults ELSE faults + 1

\* ------------------------------------------------------------------ DataSlice
EmptyArrays == [a \in ArrayNames |-> EmptyArray]
NoSlice == [h |-> FALSE, d |-> FALSE, init |-> FALSE, topo |-> FALSE]

\* DataSlice::Init going on after a failed step: the arrays after the failing
\* one are allocated all the same.
DataSlice_Init_NoGuard(A, n, target, f) ==
    [a \in ArrayNames |->
        IF ArrayIdx(a) + 1 = f THEN Array1D_AllocateFailed(A[a], n, target)
        ELSE Array1D_Allocate(A[a], n, target)]

\* DataSlice::Init, the arrays.  f is the step that fails (0: none):
\* 1 BaseDataSlice::Init, 2..9 the Allocate of array f-1, 10 the topology's
\* Move.  Each GUARD_CU returns at the first failure.
DataSlice_Init(A, n, target, f) ==
    [a \in ArrayNames |->
        LET k == ArrayIdx(a) + 1 IN
        IF f = 0 \/ k < f THEN Array1D_Allocate(A[a], n, target)
        ELSE IF k = f THEN Array1D_AllocateFailed(A[a], n, target)
        ELSE A[a]]

\* DataSlice::Reset giving every array fresh storage of exactly n cells,
\* whatever it held.
DataSlice_ResetSizes_Realloc(A, n, target, f) ==
    [a \in ArrayNames |->
        LET k == ArrayIdx(a) IN
        IF f = 0 \/ k < f THEN Array1D_Allocate(A[a], n, target)
        ELSE IF k = f THEN Array1D_AllocateFailed(A[a], n, target)
        ELSE A[a]]

\* DataSlice::Reset, the sizes: EnsureSize_ on each array in turn; f is the
\* array whose EnsureSize_ fails (0: none).
DataSlice_ResetSizes(A, n, target, f) ==
    [a \in ArrayNames |->
        LET k == ArrayIdx(a) IN
        IF f = 0 \/ k < f THEN Array1D_EnsureSize(A[a], n, target)
        ELSE IF k = f THEN Array1D_EnsureSizeFailed(A[a], n, target)
        ELSE A[a]]

\* DataSlice::Reset, the fills on the host: ForEach with HOST in target runs
\* on the calling thread, so the cells are written when it returns.
DataSlice_ResetHostFills(A, n, target) ==
    [a \in ArrayNames |->
        IF HOST \in target
        THEN [A[a] EXCEPT ![HOST] = FillBuf(A[a][HOST], n, ResetValue(a))]
        ELSE A[a]]

\* DataSlice::Reset submitting fills of one cell more than the size it
\* ensured.
DataSlice_ResetDeviceFills_Oversized(n, target) ==
    IF DEVICE \in target
    THEN [k \in 1 .. NumArrays |-> [array |-> Arrays[k], n |-> n + 1]]
    ELSE <<>>

\* DataSlice::Reset, the fills on the device: ForEach with DEVICE in target
\* submits one kernel per array to this->stream, in the code's order.
DataSlice_ResetDeviceFills(n, target) ==
    IF DEVICE \in target
    THEN [k \in 1 .. NumArrays |-> [array |-> Arrays[k], n |-> n]]
    ELSE <<>>

\* DataSlice::Reset filling only when no array had to be allocated: a call
\* that allocates returns success with the new storage unwritten.
DataSlice_Reset_FillOld(A, n, target, f) ==
    IF f = 0 /\ \A a \in ArrayNames : ~Array1D_NeedsAlloc(A[a], n, target)
    THEN [arrs |-> DataSlice_ResetHostFills(A, n, target),
          fills |-> DataSlice_ResetDeviceFills(n, target),
          ok |-> TRUE]
    ELSE [arrs |-> DataSlice_ResetSizes(A, n, target, f),
          fills |-> <<>>,
          ok |-> f = 0]

\* DataSlice::Reset: all eight sizes first, then the fills; a failed
\* EnsureSize_ returns before any fill.
DataSlice_Reset(A, n, target, f) ==
    IF f = 0
    THEN [arrs |-> DataSlice_ResetHostFills(
                       DataSlice_ResetSizes(A, n, target, 0), n, target),
          fills |-> DataSlice_ResetDeviceFills(n, target),
          ok |-> TRUE]
    ELSE [arrs |-> DataSlice_ResetSizes(A, n, target, f),
          fills |-> <<>>,
          ok |-> FALSE]

\* The steps of DataSlice::Reset the environment can fail: an EnsureSize_
\* that has to allocate.
DataSlice_ResetFaults(A, n, target) ==
    {k \in 1 .. NumArrays : Array1D_NeedsAlloc(A[Arrays[k]], n, target)}

\* Fills submitted behind the queue q of a stream.  A queued fill of an array
\* that is filled again is superseded: both write the same value to the same
\* cells and nothing can be ordered between them.
Submit(q, fills) ==
    LET again == {fills[k].array : k \in 1 .. Len(fills)}
        Keeps(fill) == fill.array \notin again
    IN SelectSeq(q, Keeps) \o fills

\* One queued fill taking effect on the device.
ApplyFill(A, fill) ==
    [A EXCEPT ![fill.array][DEVICE] =
        IF Len(A[fill.array][DEVICE].data) >= fill.n
        THEN FillBuf(A[fill.array][DEVICE], fill.n, ResetValue(fill.array))
        ELSE A[fill.array][DEVICE]]

RECURSIVE ApplyFills(_, _)
ApplyFills(A, q) ==
    IF q = <<>> THEN A ELSE ApplyFills(ApplyFill(A, Head(q)), Tail(q))

\* DataSlice::Release(target) releasing every array at every location,
\* whatever the target.
DataSlice_Release_All(A, target, setDeviceFails) ==
    IF DEVICE \in target /\ setDeviceFails
    THEN A
    ELSE [a \in ArrayNames |-> Array1D_Release(A[a], LOCATION_ALL)]

\* DataSlice::Release(target): SetDevice when the device is among the
\* targets, then every array's Release, then BaseDataSlice::Release.  A
\* SetDevice that fails returns before anything is released.
DataSlice_Release(A, target, setDeviceFails) ==
    IF DEVICE \in target /\ setDeviceFails
    THEN A
    ELSE [a \in ArrayNames |-> Array1D_Release(A[a], target)]

\* What of a slice's arrays is allocated, as <<array, location>> pairs.
Allocated(A) == {<<a, loc>> \in ArrayNames \X Locs : A[a][loc].alloc}

\* The caller's buffers: while an array of slice 0 points at one (SetPointer),
\* the array's host side is the buffer: what the array holds there is what
\* the buffer holds.
HostBuffer(A, h) ==
    [b \in HostBuffers |->
        IF A[0][ExtractedArray[b]][HOST].set
        THEN A[0][ExtractedArray[b]][HOST].data ELSE h[b]]

\* ------------------------------------------------------------------ HITSProblem
\* The arrays of HITSProblem::DataSlice.
HITSArrays == <<"hrank_curr", "arank_curr", "hrank_next", "arank_next", "rank_mag">>
HITSArrayNames == {HITSArrays[k] : k \in 1 .. Len(HITSArrays)}

\* HITSProblem(): selector 0, data_slices and d_data_slices NULL.  An
\* element of the two pointer arrays is "null" (there is no such element),
\* "garbage" (an element of new DataSlice*[n] that was never assigned),
\* "object" (a DataSlice made by new) or "alloc" (storage made by
\* cudaMalloc).  num_gpus is the base class's, 0 until Init sets it; inited:
\* Init has returned success; dangling: the program has used a pointer that
\* was never assigned.
HITSConstructed ==
    [num_gpus |-> 0,
     pointers |-> FALSE,
     slice |-> [g \in Gpus |-> "null"],
     d_slice |-> [g \in Gpus |-> "null"],
     arrays |-> [g \in Gpus |-> [a \in HITSArrayNames |-> EmptyArray]],
     selector |-> 0,
     inited |-> FALSE,
     dangling |-> FALSE]

\* ------------------------------------------------------------------ Problem
\* The state after construction: Problem's constructor sets data_slices to
\* NULL; the parameters fix the devices, and the graph and its partition are
\* what BaseProblem::Init will find.
Init ==
    /\ num_gpus \in 1 .. MaxGpus
    /\ org_nodes \in 1 .. MaxNodes
    /\ partition_table \in [0 .. (org_nodes - 1) -> 0 .. (num_gpus - 1)]
    /\ data_slices = FALSE
    /\ ds = [g \in Gpus |-> NoSlice]
    /\ arr = [g \in Gpus |-> EmptyArrays]
    /\ pending = [g \in Gpus |-> <<>>]
    /\ cur_dev = 0
    /\ h_out = [b \in HostBuffers |-> [i \in 1 .. org_nodes |-> Undef]]
    /\ leaked = {}
    /\ writes = 0
    /\ faults = 0
    /\ hits = HITSConstructed
    /\ last = [op |-> "Construct", target |-> {}, ok |-> TRUE, fault |-> NoFault,
               gpu |-> -1, again |-> FALSE]

Alive == last.op # "Destroy"

\* The record of a call that returned: the call, its result, the fault raised
\* in it, and whether it repeats the call before it (which had succeeded).
ReturnedOn(op, target, ok, fault, g) ==
    [op |-> op, target |-> target, ok |-> ok, fault |-> fault, gpu |-> g,
     again |-> last.op = op /\ last.target = target /\ last.gpu = g /\ last.ok]
Returned(op, target, ok, fault) == ReturnedOn(op, target, ok, fault, -1)

\* The faults the environment can raise in Problem::Init.  Per device:
\* 1 SetDevice, 2 data_slices[gpu].Allocate, 3 BaseDataSlice::Init,
\* 4..11 the Allocate of a working array, 12 the topology's Move.
Problem_InitFaults(target) ==
    {NoFault, BaseFault} \cup
    {<<g, s>> \in ActiveGpus \X (1 .. (NumArrays + 4)) :
        s \in {1, NumArrays + 4} => DEVICE \in target}

\* The devices the loop of Problem::Init walks, in ascending order.
Problem_InitGpus == ActiveGpus

\* Problem::Init with the topology moved before the working arrays are
\* allocated: a slice whose Allocate failed has its topology on the device.
Problem_InitSlice_MoveFirst(g, target, fault) ==
    IF fault = NoFault \/ g < fault[1]
    THEN [h |-> TRUE, d |-> DEVICE \in target, init |-> TRUE,
          topo |-> DEVICE \in target]
    ELSE IF g > fault[1] \/ fault[2] = 1 THEN NoSlice
    ELSE IF fault[2] = 2
    THEN [NoSlice EXCEPT !.h = DEVICE \in target]
    ELSE [h |-> TRUE, d |-> DEVICE \in target, init |-> fault[2] > 3,
          topo |-> DEVICE \in target /\ fault[2] > 3]

\* Problem::Init, slice g: what the loop has made of data_slices[g] when the
\* call returns.
Problem_InitSlice(g, target, fault) ==
    IF fault = NoFault \/ g < fault[1]
    THEN [h |-> TRUE, d |-> DEVICE \in target, init |-> TRUE,
          topo |-> DEVICE \in target]
    ELSE IF g > fault[1] \/ fault[2] = 1 THEN NoSlice
    ELSE IF fault[2] = 2
    THEN [NoSlice EXCEPT !.h = DEVICE \in target]
    ELSE [h |-> TRUE, d |-> DEVICE \in target, init |-> fault[2] > 3,
          topo |-> FALSE]

\* Problem::Init sizing every slice's arrays to the whole graph instead of
\* the slice's partition.
Problem_InitArrays_WholeGraph(g, target, fault) ==
    IF fault = NoFault \/ g < fault[1]
    THEN DataSlice_Init(EmptyArrays, org_nodes, target, 0)
    ELSE IF g > fault[1] \/ fault[2] < 4 THEN EmptyArrays
    ELSE DataSlice_Init(EmptyArrays, org_nodes, target, fault[2] - 2)

Problem_InitArrays(g, target, fault) ==
    IF fault = NoFault \/ g < fault[1]
    THEN DataSlice_Init(EmptyArrays, SubNodes(g), target, 0)
    ELSE IF g > fault[1] \/ fault[2] < 4 THEN EmptyArrays
    ELSE DataSlice_Init(EmptyArrays, SubNodes(g), target, fault[2] - 2)

\* The device selected when Problem::Init or Problem::Reset returns: the last
\* one whose SetDevice succeeded (none before the loop, the last device after
\* it).
SelectedAfterLoop(target, fault) ==
    IF DEVICE \notin target THEN cur_dev
    ELSE IF fault = NoFault THEN num_gpus - 1
    ELSE IF fault[1] < 0 THEN (IF fault = BaseFault THEN cur_dev ELSE num_gpus - 1)
    ELSE IF fault[2] > 1 THEN fault[1]
    ELSE IF fault[1] > 0 THEN fault[1] - 1
    ELSE cur_dev

\* Problem::Init(graph, target).
\* Problem::Init making the array of slices before BaseProblem::Init: when
\* that fails the call returns with data_slices set.
Problem_Init_SlicesFirst(target, fault) ==
    /\ Alive
    /\ ~data_slices
    /\ fault \in Problem_InitFaults(target)
    /\ Raise(fault)
    /\ data_slices' = TRUE
    /\ IF fault = BaseFault
       THEN UNCHANGED <<ds, arr, cur_dev>>
       ELSE /\ ds' = [g \in Gpus |->
                        IF g \in Problem_InitGpus
                        THEN Problem_InitSlice(g, target, fault) ELSE ds[g]]
            /\ arr' = [g \in Gpus |->
                        IF g \in Problem_InitGpus
                        THEN Problem_InitArrays(g, target, fault) ELSE arr[g]]
            /\ cur_dev' = SelectedAfterLoop(target, fault)
    /\ last' = Returned("Init", target, fault = NoFault, fault)
    /\ UNCHANGED <<config, pending, h_out,
                   leaked, writes>>

Problem_Init(target, fault) ==
    /\ Alive
    /\ ~data_slices
    /\ fault \in Problem_InitFaults(target)
    /\ Raise(fault)
    /\ IF fault = BaseFault
       THEN UNCHANGED <<data_slices, ds, arr, cur_dev>>
       ELSE /\ data_slices' = TRUE
            /\ ds' = [g \in Gpus |->
                        IF g \in Problem_InitGpus
                        THEN Problem_InitSlice(g, target, fault) ELSE ds[g]]
            /\ arr' = [g \in Gpus |->
                        IF g \in Problem_InitGpus
                        THEN Problem_InitArrays(g, target, fault) ELSE arr[g]]
            /\ cur_dev' = SelectedAfterLoop(target, fault)
    /\ last' = Returned("Init", target, fault = NoFault, fault)
    /\ UNCHANGED <<config, pending, h_out,
                   leaked, writes>>

ProblemInit == \E target \in Targets : \E fault \in Problem_InitFaults(target) :
                   Problem_Init(target, fault)

\* cudaDeviceSynchronize fails.
SyncFault == <<-1, 2>>

\* The faults the environment can raise in Problem::Reset.  Per device:
\* 1 SetDevice, 2..9 the EnsureSize_ of a working array (when it has to
\* allocate), 10 data_slices[gpu].Move; then cudaDeviceSynchronize.
Problem_ResetFaults(target) ==
    {NoFault, SyncFault} \cup
    {<<g, s>> \in ActiveGpus \X (1 .. (NumArrays + 2)) :
        /\ s \in {1, NumArrays + 2} => DEVICE \in target
        /\ s \in 2 .. (NumArrays + 1) =>
               (s - 1) \in DataSlice_ResetFaults(arr[g], SubNodes(g), target)}

LoopFault(fault) == fault[1] >= 0

\* The devices the loop of Problem::Reset walks, in ascending order.
Problem_ResetGpus == ActiveGpus

\* Problem::Reset with a DataSlice::Reset that runs its host fills even when
\* an EnsureSize_ has failed.
Problem_ResetSlice_FillOnFailure(g, target, fault) ==
    IF ~LoopFault(fault) \/ g < fault[1] \/ (g = fault[1] /\ fault[2] = NumArrays + 2)
    THEN DataSlice_Reset(arr[g], SubNodes(g), target, 0)
    ELSE IF g > fault[1] \/ fault[2] = 1
    THEN [arrs |-> arr[g], fills |-> <<>>, ok |-> FALSE]
    ELSE [arrs |-> DataSlice_ResetHostFills(
                       DataSlice_Reset(arr[g], SubNodes(g), target, fault[2] - 1).arrs,
                       SubNodes(g), target),
          fills |-> <<>>,
          ok |-> FALSE]

\* Problem::Reset, slice g: the outcome of data_slices[gpu]->Reset(target),
\* or nothing when the loop returned before it.
Problem_ResetSlice(g, target, fault) ==
    IF ~LoopFault(fault) \/ g < fault[1] \/ (g = fault[1] /\ fault[2] = NumArrays + 2)
    THEN DataSlice_Reset(arr[g], SubNodes(g), target, 0)
    ELSE IF g > fault[1] \/ fault[2] = 1
    THEN [arrs |-> arr[g], fills |-> <<>>, ok |-> FALSE]
    ELSE DataSlice_Reset(arr[g], SubNodes(g), target, fault[2] - 1)

\* data_slices[gpu].Move(HOST, target): the slice's struct is copied to the
\* device (which gets storage for it if it had none).
Problem_ResetMoved(g, target, fault) ==
    /\ DEVICE \in target
    /\ ~LoopFault(fault) \/ g < fault[1] \/ (g = fault[1] /\ fault[2] = NumArrays + 2)

\* cudaDeviceSynchronize(): every fill queued on the selected device has run.
Synchronized(A, P, dev) == [A EXCEPT ![dev] = ApplyFills(A[dev], P[dev])]
Drained(P, dev) == [P EXCEPT ![dev] = <<>>]

\* Problem::Reset(target).
Problem_Reset(target, fault) ==
    LET dev == SelectedAfterLoop(target, fault)
        A == [g \in Gpus |->
                IF g \in Problem_ResetGpus
                THEN Problem_ResetSlice(g, target, fault).arrs ELSE arr[g]]
        P == [g \in Gpus |->
                IF g \in Problem_ResetGpus
                THEN Submit(pending[g], Problem_ResetSlice(g, target, fault).fills)
                ELSE pending[g]]
    IN
    /\ Alive
    /\ data_slices
    /\ \A g \in ActiveGpus : ds[g].h /\ ds[g].init
    /\ fault \in Problem_ResetFaults(target)
    /\ Raise(fault)
    /\ ds' = [g \in Gpus |->
                IF g \in Problem_ResetGpus /\ Problem_ResetMoved(g, target, fault)
                THEN [ds[g] EXCEPT !.d = TRUE] ELSE ds[g]]
    /\ cur_dev' = dev
    /\ IF fault = NoFault
       THEN arr' = Synchronized(A, P, dev) /\ pending' = Drained(P, dev)
       ELSE arr' = A /\ pending' = P
    /\ h_out' = HostBuffer(arr', h_out)
    /\ last' = Returned("Reset", target, fault = NoFault, fault)
    /\ UNCHANGED <<config, data_slices, leaked,
                   writes>>

ProblemReset == \E target \in Targets : \E fault \in Problem_ResetFaults(target) :
                    Problem_Reset(target, fault)

\* The stream of device g runs the fills queued on it, in the order they were
\* submitted.
StreamStep(g) ==
    /\ pending[g] # <<>>
    /\ arr' = [arr EXCEPT ![g] = ApplyFills(arr[g], pending[g])]
    /\ pending' = [pending EXCEPT ![g] = <<>>]
    /\ last' = ReturnedOn("StreamStep", {DEVICE}, TRUE, NoFault, g)
    /\ UNCHANGED <<config, data_slices, ds,
                   cur_dev, h_out, leaked, writes, faults>>

Stream == \E g \in Gpus : StreamStep(g)

\* ------------------------------------------------------------------ Release
\* The storage of slice g that is allocated, as <<g, array, location>>.
Owned(g) == {<<g, x[1], x[2]>> : x \in Allocated(arr[g])}

\* The loop of Problem::Release stopping one device short.
Problem_ReleaseGpus_OffByOne == 0 .. (num_gpus - 2)

\* The devices the loop of Problem::Release walks.
Problem_ReleaseGpus == ActiveGpus

\* Whether data_slices[g].Release(target) destroys the DataSlice: releasing
\* the Array1D's host storage deletes the object it holds, and ~DataSlice
\* runs DataSlice::Release(LOCATION_ALL).
Destroys(g, target) == HOST \in target /\ ds[g].h

\* The faults the environment can raise in Problem::Release: the SetDevice
\* of a ~DataSlice's Release.  The destructor drops the failure.
Problem_ReleaseFaults(target) ==
    {NoFault} \cup
    {<<g, 1>> : g \in {x \in Problem_ReleaseGpus : data_slices /\ Destroys(x, target)}}

\* data_slices[g].Release(target) freeing the device copy only when there is
\* no host copy left to free (an else-if over the two pointers).
Problem_ReleaseSlice_ElseIf(g, target) ==
    [h |-> ds[g].h /\ HOST \notin target,
     d |-> ds[g].d /\ (DEVICE \notin target \/ (HOST \in target /\ ds[g].h)),
     init |-> ds[g].init /\ ~(HOST \in target /\ ds[g].h),
     topo |-> ds[g].topo /\ DEVICE \notin target]

\* Problem::Release, slice g: data_slices[g].Release(target).
Problem_ReleaseSlice(g, target) ==
    [h |-> ds[g].h /\ HOST \notin target,
     d |-> ds[g].d /\ DEVICE \notin target,
     init |-> ds[g].init /\ ~Destroys(g, target),
     topo |-> ds[g].topo /\ DEVICE \notin target]

Problem_ReleaseArrays(g, target, fault) ==
    IF Destroys(g, target) THEN EmptyArrays ELSE arr[g]

\* What the ~DataSlice of slice g leaves allocated with no owner.
Problem_ReleaseLeak(g, target, fault) ==
    IF Destroys(g, target) /\ fault = <<g, 1>> THEN Owned(g) ELSE {}

\* The test made on the last device instead of the first.
Problem_ReleaseDeletes_LastDevice(D, target) ==
    HOST \in target /\ ~D[num_gpus - 1].d

\* The test that lets Problem::Release delete the array of slices.
Problem_ReleaseDeletes(D, target) == HOST \in target /\ ~D[0].d

\* Problem::Release(target), as the call and as the destructor's call.
Problem_Release(op, target, fault) ==
    LET D == [g \in Gpus |->
                IF g \in Problem_ReleaseGpus
                THEN Problem_ReleaseSlice(g, target) ELSE ds[g]]
        destroyed == {g \in Problem_ReleaseGpus : Destroys(g, target)}
        selected == {g \in destroyed : fault # <<g, 1>>}
    IN
    /\ Alive
    /\ fault \in Problem_ReleaseFaults(target)
    /\ Raise(fault)
    /\ IF ~data_slices
       THEN UNCHANGED <<data_slices, ds, arr, pending, cur_dev, leaked, h_out>>
       ELSE /\ ds' = D
            /\ arr' = [g \in Gpus |->
                         IF g \in Problem_ReleaseGpus
                         THEN Problem_ReleaseArrays(g, target, fault) ELSE arr[g]]
            /\ pending' = [g \in Gpus |->
                             IF g \in destroyed THEN <<>> ELSE pending[g]]
            /\ cur_dev' = IF selected = {} THEN cur_dev
                          ELSE CHOOSE g \in selected : \A x \in selected : x <= g
            /\ data_slices' = ~Problem_ReleaseDeletes(D, target)
            /\ leaked' = leaked
                  \cup UNION {Problem_ReleaseLeak(g, target, fault) :
                                 g \in Problem_ReleaseGpus}
                  \cup {<<g, "data_slices", DEVICE>> :
                           g \in {x \in ActiveGpus :
                                    Problem_ReleaseDeletes(D, target) /\ D[x].d}}
            /\ h_out' = HostBuffer(arr', h_out)
    /\ last' = Returned(op, target, TRUE, fault)
    /\ UNCHANGED <<config, writes>>

ProblemRelease == \E target \in Targets : \E fault \in Problem_ReleaseFaults(target) :
                      Problem_Release("Release", target, fault)

\* ~Problem() { Release(); }
Destroy == \E fault \in Problem_ReleaseFaults(LOCATION_ALL) :
               Problem_Release("Destroy", LOCATION_ALL, fault)

\* A direct call of data_slices[g]->Release(target).  fault <<g, 1>>: its
\* SetDevice fails, and the call returns that before it releases anything.
Slice_Release(g, target, fault) ==
    /\ Alive
    /\ data_slices
    /\ g \in ActiveGpus
    /\ ds[g].h
    /\ fault \in {NoFault} \cup {<<x, 1>> : x \in {y \in {g} : DEVICE \in target}}
    /\ Raise(fault)
    /\ arr' = [arr EXCEPT ![g] = DataSlice_Release(arr[g], target, fault # NoFault)]
    /\ pending' = [pending EXCEPT ![g] =
                      IF DEVICE \in target /\ fault = NoFault THEN <<>> ELSE pending[g]]
    /\ cur_dev' = IF DEVICE \in target /\ fault = NoFault THEN g ELSE cur_dev
    /\ h_out' = HostBuffer(arr', h_out)
    /\ last' = ReturnedOn("SliceRelease", target, fault = NoFault, fault, g)
    /\ UNCHANGED <<config, data_slices, ds, leaked,
                   writes>>

SliceRelease == \E g \in Gpus : \E target \in Targets : \E fault \in {NoFault, <<g, 1>>} :
                    Slice_Release(g, target, fault)

\* ------------------------------------------------------------------ Extract
\* Array1D::SetPointer(h, n, HOST): the array's host side becomes the
\* caller's buffer h; host storage the array owned is given up.
Array1D_SetPointer(A, h) ==
    [A EXCEPT ![HOST] = [alloc |-> FALSE, set |-> TRUE, data |-> h]]

\* Array1D::Move(DEVICE, HOST): the device's cells are copied to the host
\* side; there is nothing to copy from when the device holds no storage.
Array1D_CanMoveToHost(A) == A[DEVICE].alloc /\ HasPointer(A[HOST])
Array1D_MoveToHost(A) == [A EXCEPT ![HOST].data = A[DEVICE].data]

\* ForEach(h, host_val = device_val, n, HOST): the first n cells of the
\* array's host side, copied to h one by one.
Array1D_CopyOut(A, h, n) ==
    [i \in 1 .. Len(h) |-> IF i <= n THEN A[HOST].data[i] ELSE h[i]]

\* The faults the environment can raise in Problem::Extract: <<0, 1>> the
\* SetDevice, <<0, 2>> the Move; both in the branch num_gpus == 1 with
\* target == DEVICE, the only one that has such steps.
Problem_ExtractFaults(target) ==
    {NoFault} \cup
    {<<0, s>> : s \in {x \in {1, 2} : num_gpus = 1 /\ target = {DEVICE}}}

\* Problem::Extract(h_degrees, target), the branch taken.
ExtractFromDevice(target) == num_gpus = 1 /\ target = {DEVICE}
ExtractFromHost(target) == num_gpus = 1 /\ target = {HOST}

\* Problem::Extract with the Move left out: the buffer is attached and
\* nothing is copied into it.
Problem_ExtractDegrees_NoMove(A, h, fault) ==
    IF fault = <<0, 1>> THEN A ELSE Array1D_SetPointer(A, h)

\* Problem::Extract, num_gpus == 1 and target == DEVICE: degrees after
\* SetDevice, SetPointer and Move, as far as the call got.
Problem_ExtractDegrees(A, h, fault) ==
    IF fault = <<0, 1>> THEN A
    ELSE IF fault = <<0, 2>> \/ ~A[DEVICE].alloc THEN Array1D_SetPointer(A, h)
    ELSE Array1D_MoveToHost(Array1D_SetPointer(A, h))

Problem_ExtractOk(target, fault) ==
    /\ fault = NoFault
    /\ ExtractFromDevice(target) => arr[0]["degrees"][DEVICE].alloc

\* Problem::Extract(h_degrees, target).
Problem_Extract(target, fault) ==
    /\ Alive
    /\ data_slices
    /\ \A g \in ActiveGpus : ds[g].h /\ ds[g].init
    /\ ExtractFromHost(target) =>
           /\ HasPointer(arr[0]["degrees"][HOST])
           /\ Len(arr[0]["degrees"][HOST].data) >= org_nodes
    /\ fault \in Problem_ExtractFaults(target)
    /\ Raise(fault)
    /\ arr' = IF ExtractFromDevice(target)
              THEN [arr EXCEPT ![0]["degrees"] =
                       Problem_ExtractDegrees(@, h_out["h_degrees"], fault)]
              ELSE arr
    /\ h_out' = IF ExtractFromHost(target)
                THEN [h_out EXCEPT !["h_degrees"] =
                         Array1D_CopyOut(arr[0]["degrees"], @, org_nodes)]
                ELSE HostBuffer(arr', h_out)
    /\ cur_dev' = IF ExtractFromDevice(target) /\ fault # <<0, 1>> THEN 0 ELSE cur_dev
    /\ last' = Returned("Extract", target, Problem_ExtractOk(target, fault), fault)
    /\ UNCHANGED <<config, data_slices, ds, pending,
                   leaked, writes>>

ProblemExtract == \E target \in Targets : \E fault \in Problem_ExtractFaults(target) :
                      Problem_Extract(target, fault)

\* ------------------------------------------------------------------ HITSProblem
\* The older variant of the file.  Its arrays live on the device only and
\* its kernels run on the default stream, which the cudaMemcpy that follows
\* them waits for.
HITSAlive == last.op # "HITSDestroy"

\* The cells of a HITSProblem array: one for rank_mag, nodes for the others.
HITS_Size(a) == IF a = "rank_mag" THEN 1 ELSE org_nodes

\* The value HITSProblem::Reset fills an array with.
HITS_ResetValue(a) == IF a \in {"hrank_curr", "arank_curr"} THEN 1 ELSE 0

\* The faults the environment can raise in HITSProblem::Init: BaseFault in
\* BaseProblem::Init, and in the branch num_gpus <= 1: 1 SetDevice,
\* 2 cudaMalloc of d_data_slices[0], 3 DataSlice::Init, 4..8 the Allocate of
\* array f-3.
HITS_InitFaults ==
    {NoFault, BaseFault} \cup
    {<<0, f>> : f \in {x \in 1 .. (Len(HITSArrays) + 3) : num_gpus <= 1}}

\* The results of BaseProblem::Init and of DataSlice::Init are dropped; the
\* other steps return theirs.
HITS_InitOk(fault) == fault \in {NoFault, BaseFault, <<0, 3>>}

\* data_slices[g] and d_data_slices[g] when HITSProblem::Init returns.
HITS_InitSlice(g, fault) ==
    IF g >= num_gpus THEN "null"
    ELSE IF num_gpus <= 1 /\ fault # <<0, 1>> THEN "object"
    ELSE "garbage"

HITS_InitDeviceSlice(g, fault) ==
    IF g >= num_gpus THEN "null"
    ELSE IF num_gpus <= 1 /\ fault \notin {<<0, 1>>, <<0, 2>>} THEN "alloc"
    ELSE "garbage"

\* The arrays of slice 0 when HITSProblem::Init returns: array k is
\* allocated on the device when the call got past its Allocate.
HITS_InitArrays(g, fault) ==
    [a \in HITSArrayNames |->
        IF /\ g = 0
           /\ num_gpus <= 1
           /\ \/ HITS_InitOk(fault)
              \/ fault[1] = 0 /\ fault[2] >= 4 /\
                 \E k \in 1 .. Len(HITSArrays) : HITSArrays[k] = a /\ k < fault[2] - 3
        THEN Array1D_Allocate(EmptyArray, HITS_Size(a), {DEVICE})
        ELSE EmptyArray]

\* HITSProblem::Init(stream_from_host, hub_graph, auth_graph, num_gpus, ...).
HITS_Init(fault) ==
    /\ HITSAlive
    /\ ~hits.pointers
    /\ fault \in HITS_InitFaults
    /\ Raise(fault)
    /\ hits' = [hits EXCEPT
                   !.num_gpus = num_gpus,
                   !.pointers = TRUE,
                   !.slice = [g \in Gpus |-> HITS_InitSlice(g, fault)],
                   !.d_slice = [g \in Gpus |-> HITS_InitDeviceSlice(g, fault)],
                   !.arrays = [g \in Gpus |-> HITS_InitArrays(g, fault)],
                   !.inited = HITS_InitOk(fault)]
    /\ cur_dev' = IF num_gpus <= 1 /\ fault # <<0, 1>> THEN 0 ELSE cur_dev
    /\ last' = Returned("HITSInit", {DEVICE}, HITS_InitOk(fault), fault)
    /\ UNCHANGED <<num_gpus, org_nodes, partition_table, data_slices, ds, arr,
                   pending, h_out, leaked, writes>>

HITSInit == \E fault \in HITS_InitFaults : HITS_Init(fault)

\* The faults the environment can raise in HITSProblem::Reset.  Per device:
\* 1 cudaSetDevice, 2 DataSlice::Reset (result dropped), 3 the cudaMemcpy of
\* the slice to d_data_slices[gpu]; HITS_SrcFault: the cudaMemcpy of
\* init_score after the loop.
HITS_SrcFault == <<-1, 3>>
HITS_ResetFaults ==
    {NoFault, HITS_SrcFault} \cup {<<g, f>> : g \in 0 .. (hits.num_gpus - 1), f \in 1 .. 3}

HITS_ResetOk(fault) == fault = NoFault \/ (fault[1] >= 0 /\ fault[2] = 2)

\* The devices whose iteration of the loop got past its cudaSetDevice.
HITS_ResetGpus(fault) ==
    {g \in 0 .. (hits.num_gpus - 1) :
        fault[1] < 0 \/ fault[2] = 2 \/ g < fault[1] \/ (g = fault[1] /\ fault[2] # 1)}

\* One array of a slice after its iteration: allocated on the device if it
\* was not, then filled by MemsetKernel.
HITS_ResetArray(A, a) ==
    LET B == IF A[DEVICE].alloc THEN A
             ELSE Array1D_Allocate(A, HITS_Size(a), {DEVICE})
    IN  [B EXCEPT ![DEVICE] = FillBuf(@, HITS_Size(a), HITS_ResetValue(a))]

\* HITSProblem::Reset(src, delta, frontier_type, queue_sizing).  A slice
\* pointer that was never assigned is dereferenced all the same: what the
\* call returns then is anything.
HITS_Reset(src, fault, ok) ==
    /\ HITSAlive
    /\ hits.inited
    /\ fault \in HITS_ResetFaults
    /\ Raise(fault)
    /\ LET G == HITS_ResetGpus(fault)
           wild == \E g \in G : hits.slice[g] # "object"
           A == [g \in Gpus |->
                    IF g \in G /\ hits.slice[g] = "object"
                    THEN [a \in HITSArrayNames |-> HITS_ResetArray(hits.arrays[g][a], a)]
                    ELSE hits.arrays[g]]
           S == IF fault[1] < 0 /\ hits.slice[0] = "object"
                THEN [A EXCEPT ![0]["hrank_curr"][DEVICE].data[src + 1] = 1]
                ELSE A
       IN  /\ hits' = [hits EXCEPT !.arrays = S, !.dangling = @ \/ wild]
           /\ wild \/ ok = HITS_ResetOk(fault)
           /\ cur_dev' = IF G = {} THEN cur_dev
                         ELSE CHOOSE g \in G : \A x \in G : x <= g
    /\ last' = Returned("HITSReset", {DEVICE}, ok, fault)
    /\ UNCHANGED <<num_gpus, org_nodes, partition_table, data_slices, ds, arr,
                   pending, h_out, leaked, writes>>

HITSReset == \E src \in Vertices : \E fault \in HITS_ResetFaults : \E ok \in BOOLEAN :
                 HITS_Reset(src, fault, ok)

\* The faults the environment can raise in HITSProblem::Extract, all in the
\* branch num_gpus == 1: 1 cudaSetDevice, 2 the Move of hrank_curr, 3 the
\* Move of arank_curr.
HITS_ExtractFaults ==
    {NoFault} \cup {<<0, f>> : f \in {x \in 1 .. 3 : hits.num_gpus = 1}}

\* A failed cudaSetDevice leaves the loop by break, with retval still
\* cudaSuccess; a failed Move returns its error.
HITS_ExtractOk(fault) == fault \in {NoFault, <<0, 1>>}

\* The Moves that ran and succeeded, by the caller's buffer they filled.
HITS_ExtractMoved(fault) ==
    IF hits.num_gpus # 1 \/ fault \in {<<0, 1>>, <<0, 2>>} THEN {}
    ELSE IF fault = <<0, 3>> THEN {"h_hrank"}
    ELSE {"h_hrank", "h_arank"}

\* HITSProblem::Extract(h_hrank, h_arank).
HITS_Extract(fault) ==
    /\ HITSAlive
    /\ hits.inited
    /\ fault \in HITS_ExtractFaults
    /\ Raise(fault)
    /\ LET A == [a \in HITSArrayNames |->
                    IF \E b \in HITS_ExtractMoved(fault) : ExtractedArray[b] = a
                    THEN Array1D_MoveToHost(Array1D_SetPointer(hits.arrays[0][a],
                             h_out[CHOOSE b \in HostBuffers : ExtractedArray[b] = a]))
                    ELSE hits.arrays[0][a]]
       IN  /\ hits' = [hits EXCEPT !.arrays[0] = A]
           /\ h_out' = [b \in HostBuffers |->
                           IF b \in HITS_ExtractMoved(fault)
                           THEN A[ExtractedArray[b]][HOST].data ELSE h_out[b]]
    /\ cur_dev' = IF hits.num_gpus = 1 /\ fault # <<0, 1>> THEN 0 ELSE cur_dev
    /\ last' = Returned("HITSExtract", {DEVICE}, HITS_ExtractOk(fault), fault)
    /\ UNCHANGED <<num_gpus, org_nodes, partition_table, data_slices, ds, arr,
                   pending, leaked, writes>>

HITSExtract == \E fault \in HITS_ExtractFaults : HITS_Extract(fault)

\* The faults the environment can raise in ~HITSProblem: the cudaSetDevice
\* of device g, which ends the loop by break.
HITS_DestroyFaults == {NoFault} \cup {<<g, 1>> : g \in 0 .. (hits.num_gpus - 1)}

\* The devices whose iteration of the destructor's loop ran.
HITS_DestroyGpus(fault) ==
    {g \in 0 .. (hits.num_gpus - 1) : fault = NoFault \/ g < fault[1]}

\* ~HITSProblem().  The loop releases the five arrays of each slice it
\* reaches and frees d_data_slices[i]; then the two pointer arrays are
\* deleted.  The DataSlice objects themselves are not deleted.  A pointer
\* that was never assigned is used all the same: the program then either
\* goes on or stops where it is (abort).
HITS_Destroy(fault, abort) ==
    /\ HITSAlive
    /\ fault \in HITS_DestroyFaults
    /\ Raise(fault)
    /\ LET G == HITS_DestroyGpus(fault)
           wild == \E g \in G : hits.slice[g] = "garbage" \/ hits.d_slice[g] = "garbage"
       IN  /\ abort => wild
           /\ hits' =
                IF abort THEN [hits EXCEPT !.dangling = TRUE]
                ELSE [hits EXCEPT
                   !.pointers = FALSE,
                   !.arrays = [g \in Gpus |->
                       IF g \in G /\ hits.slice[g] = "object"
                       THEN [a \in HITSArrayNames |->
                                Array1D_Release(hits.arrays[g][a], LOCATION_ALL)]
                       ELSE hits.arrays[g]],
                   !.d_slice = [g \in Gpus |->
                       IF g \in G /\ hits.d_slice[g] = "alloc" THEN "null"
                       ELSE hits.d_slice[g]],
                   !.dangling = @ \/ wild]
           /\ cur_dev' = IF G = {} THEN cur_dev
                         ELSE CHOOSE g \in G : \A x \in G : x <= g
    /\ last' = Returned("HITSDestroy", LOCATION_ALL, TRUE, fault)
    /\ UNCHANGED <<num_gpus, org_nodes, partition_table, data_slices, ds, arr,
                   pending, h_out, leaked, writes>>

HITSDestroy == \E fault \in HITS_DestroyFaults : \E abort \in BOOLEAN :
                   HITS_Destroy(fault, abort)

\* ------------------------------------------------------------------ calls out of order
\* Reset and Extract test nothing before they use data_slices; a caller can
\* make them on a Problem that has no initialized slice: never initialized,
\* or released on the host.
NoSliceToUse ==
    ~data_slices \/ \E g \in ActiveGpus : ~(ds[g].h /\ ds[g].init)

\* Problem::Reset(target) on such a Problem: the loop selects device 0 when
\* the device is among the targets and then calls Reset through
\* data_slices[0], which is NULL or holds no slice.  What the call does then
\* is not defined; it may return anything.
Problem_ResetUnchecked(target, ok) ==
    /\ Alive
    /\ NoSliceToUse
    /\ cur_dev' = IF DEVICE \in target THEN 0 ELSE cur_dev
    /\ last' = Returned("Reset", target, ok, NoFault)
    /\ UNCHANGED <<config, data_slices, ds, arr, pending, h_out, leaked,
                   writes, faults>>

ResetUnchecked == \E target \in Targets : \E ok \in BOOLEAN :
                      Problem_ResetUnchecked(target, ok)

\* Problem::Extract(h_degrees, target) on such a Problem: with one device
\* it binds data_slices[0][0] and, for a target of HOST or DEVICE, uses its
\* degrees array (not defined; it may return anything); with more devices,
\* or for LOCATION_ALL, it touches nothing and returns success.
Problem_ExtractUnchecked(target, ok) ==
    /\ Alive
    /\ NoSliceToUse
    /\ (num_gpus # 1 \/ target = LOCATION_ALL) => ok
    /\ cur_dev' = IF ExtractFromDevice(target) THEN 0 ELSE cur_dev
    /\ last' = Returned("Extract", target, ok, NoFault)
    /\ UNCHANGED <<config, data_slices, ds, arr, pending, h_out, leaked,
                   writes, faults>>

ExtractUnchecked == \E target \in Targets : \E ok \in BOOLEAN :
                        Problem_ExtractUnchecked(target, ok)

\* ------------------------------------------------------------------ enactor
\* The arrays the enactor's kernels write: the next ranks and the result.
EnactorArrays == {"degrees", "hrank_next", "arank_next"}

\* What a kernel leaves in cell i: a value that tells the cells apart.
KernelValue(i) == Written + i

\* One kernel of the enactor over array a of slice g at loc.  On the device
\* it runs on the slice's stream, behind the fills queued there.
Enactor_Write(g, a, loc) ==
    /\ Alive
    /\ writes < MaxWrites
    /\ data_slices
    /\ g \in ActiveGpus
    /\ ds[g].h
    /\ HasPointer(arr[g][a][loc])
    /\ loc = DEVICE => pending[g] = <<>>
    /\ writes' = writes + 1
    /\ arr' = [arr EXCEPT ![g][a][loc].data =
                  [i \in 1 .. Len(@) |-> KernelValue(i)]]
    /\ h_out' = HostBuffer(arr', h_out)
    /\ last' = ReturnedOn("Enactor", {loc}, TRUE, NoFault, g)
    /\ UNCHANGED <<config, data_slices, ds, pending,
                   cur_dev, leaked, faults>>

EnactorWrite == \E g \in Gpus : \E a \in EnactorArrays : \E loc \in Locs :
                    Enactor_Write(g, a, loc)

\* The two pairs of rank buffers, as <<curr, next>>.
RankPairs == {<<"hrank_curr", "hrank_next">>, <<"arank_curr", "arank_next">>}

\* A swap that copies next into curr and gives next fresh storage.
Enactor_Swapped_CopyAndRealloc(A) ==
    [a \in ArrayNames |->
        IF \E p \in RankPairs : p[1] = a
        THEN LET p == CHOOSE p \in RankPairs : p[1] = a IN
             [loc \in Locs |-> [A[a][loc] EXCEPT !.data = A[p[2]][loc].data]]
        ELSE IF \E p \in RankPairs : p[2] = a
        THEN [loc \in Locs |->
                 IF A[a][loc].alloc THEN Buf(Len(A[a][loc].data)) ELSE A[a][loc]]
        ELSE A[a]]

\* The arrays of a slice after the curr/next swap: the two handles of each
\* pair exchange their roles; no storage is made, freed or copied.
Enactor_Swapped(A) ==
    [a \in ArrayNames |->
        IF \E p \in RankPairs : p[1] = a
        THEN A[(CHOOSE p \in RankPairs : p[1] = a)[2]]
        ELSE IF \E p \in RankPairs : p[2] = a
        THEN A[(CHOOSE p \in RankPairs : p[2] = a)[1]]
        ELSE A[a]]

\* The enactor ends an iteration on slice g: once the slice's stream has
\* run what was queued, curr and next exchange roles.
Enactor_Swap(g) ==
    /\ Alive
    /\ data_slices
    /\ g \in ActiveGpus
    /\ ds[g].h
    /\ ds[g].init
    /\ pending[g] = <<>>
    /\ arr' = [arr EXCEPT ![g] = Enactor_Swapped(arr[g])]
    /\ h_out' = HostBuffer(arr', h_out)
    /\ last' = ReturnedOn("Swap", LOCATION_ALL, TRUE, NoFault, g)
    /\ UNCHANGED <<config, data_slices, ds, pending,
                   cur_dev, leaked, writes, faults>>

EnactorSwap == \E g \in Gpus : Enactor_Swap(g)

\* The caller's graph changes between two runs: the vertices are assigned
\* to the devices anew, so sub_graph->nodes of a slice is another number
\* when the next Reset reads it.
Repartition(table) ==
    /\ Alive
    /\ data_slices
    /\ table # partition_table
    /\ partition_table' = table
    /\ last' = Returned("Repartition", {}, TRUE, NoFault)
    /\ UNCHANGED <<num_gpus, org_nodes, data_slices, ds, arr, pending, h_out,
                   cur_dev, leaked, writes, faults, hits>>

GraphRepartitioned == \E table \in [Vertices -> ActiveGpus] : Repartition(table)

\* ------------------------------------------------------------------ specifications
\* The lifecycle under faults: every call, with every fault the environment
\* can raise in it.
Next ==
    \/ ProblemInit
    \/ ProblemReset
    \/ Stream
    \/ ProblemExtract
    \/ ProblemRelease
    \/ Destroy

Spec == Init /\ [][Next]_vars

\* The lifecycle around the enactor's runs: Init and Reset as they are when
\* nothing fails, the enactor's kernels between Reset and Extract.
RunInit == \E target \in Targets : Problem_Init(target, NoFault)
RunReset == \E target \in Targets : Problem_Reset(target, NoFault)
RunRelease == \E target \in Targets : Problem_Release("Release", target, NoFault)
RunDestroy == Problem_Release("Destroy", LOCATION_ALL, NoFault)

NextRun ==
    \/ RunInit
    \/ RunReset
    \/ Stream
    \/ EnactorWrite
    \/ EnactorSwap
    \/ ProblemExtract
    \/ RunRelease
    \/ RunDestroy

SpecRun == Init /\ [][NextRun]_vars

\* Release, by the Problem and by a caller that releases one slice itself,
\* from every state Init (under faults) and Reset can leave.
NextRelease ==
    \/ ProblemInit
    \/ RunReset
    \/ Stream
    \/ ProblemRelease
    \/ SliceRelease

SpecRelease == Init /\ [][NextRelease]_vars

\* The calls that reach DataSlice::Init, DataSlice::Reset and
\* DataSlice::Release, under faults.
NextSlice ==
    \/ ProblemInit
    \/ ProblemReset
    \/ Stream
    \/ SliceRelease

SpecSlice == Init /\ [][NextSlice]_vars

\* The calls in any order a caller can make them: nothing fails, and Reset
\* and Extract are also made where no slice is there to use.
NextAnyOrder ==
    \/ RunInit
    \/ RunReset
    \/ ResetUnchecked
    \/ Stream
    \/ EnactorWrite
    \/ ProblemExtract
    \/ ExtractUnchecked
    \/ RunRelease
    \/ RunDestroy

SpecAnyOrder == Init /\ [][NextAnyOrder]_vars

\* Init and Reset over a graph the caller repartitions between the runs:
\* nothing fails.
NextResize ==
    \/ RunInit
    \/ RunReset
    \/ Stream
    \/ GraphRepartitioned

SpecResize == Init /\ [][NextResize]_vars

\* Runs over a graph whose partition changed since Init: the change comes
\* before the first Reset, the enactor's kernels and swaps come after a
\* Reset, and Extract is made under faults.
RepartitionedSinceInit == last.op = "Init" /\ GraphRepartitioned
InRun == last.op \in {"Reset", "Enactor", "Swap"} /\ last.ok
RunWrite == InRun /\ EnactorWrite
RunSwap == InRun /\ EnactorSwap

NextSizes ==
    \/ RunInit
    \/ RepartitionedSinceInit
    \/ RunReset
    \/ Stream
    \/ RunWrite
    \/ RunSwap
    \/ ProblemExtract

SpecSizes == Init /\ [][NextSizes]_vars

\* Init and Reset over a graph the caller repartitions after a Reset that
\* succeeded (so that the arrays hold a run's cells when they have to grow)
\* and before anything has failed, with every fault the environment can
\* raise in Reset.
RepartitionedSinceReset ==
    last.op = "Reset" /\ last.ok /\ faults = 0 /\ GraphRepartitioned

NextRegrow ==
    \/ RunInit
    \/ ProblemReset
    \/ Stream
    \/ RepartitionedSinceReset

SpecRegrow == Init /\ [][NextRegrow]_vars

\* The older variant's lifecycle, under faults.
NextHITS ==
    \/ HITSInit
    \/ HITSReset
    \/ HITSExtract
    \/ HITSDestroy

SpecHITS == Init /\ [][NextHITS]_vars

\* ------------------------------------------------------------------ claims
\* What a claim says of the state a call left: the call that returned last.
After(op) == last.op = op
Succeeded(op) == last.op = op /\ last.ok

\* Array a of slice g holds, at loc, exactly n cells, each of value v.
HoldsExactly(g, a, loc, n, v) ==
    /\ HasPointer(arr[g][a][loc])
    /\ Len(arr[g][a][loc].data) = n
    /\ \A i \in 1 .. n : arr[g][a][loc].data[i] = v

\* Slice g is in the canonical start state at loc.
Canonical(g, loc) ==
    \A a \in ArrayNames : HoldsExactly(g, a, loc, SubNodes(g), ResetValue(a))

\* C1: when Problem::Reset has returned success (after Problem::Init), every
\* slice of every device holds the canonical start state at the locations
\* Reset was called for: the current ranks 1.0, the next ranks 0.0, the
\* degree and visited arrays 0, for exactly the partition's vertex count.
C1_ResetLeavesCanonical ==
    Succeeded("Reset") =>
        \A g \in ActiveGpus : \A loc \in last.target : Canonical(g, loc)

\* C1 on the devices the final cudaDeviceSynchronize covers, and on the host.
C1_ResetCanonicalWhereSynchronized ==
    Succeeded("Reset") =>
        \A g \in ActiveGpus : \A loc \in last.target :
            (loc = HOST \/ g = cur_dev) => Canonical(g, loc)

\* Cell i of array a of slice g at loc (Undef where the array has no such cell).
Cell(g, a, loc, i) ==
    IF i \in 1 .. Len(arr[g][a][loc].data) THEN arr[g][a][loc].data[i] ELSE Undef

SingleDeviceExtract ==
    Succeeded("Extract") /\ num_gpus = 1 /\ last.target \in {{DEVICE}, {HOST}}

C3_MultiDeviceReassembled ==
    (Succeeded("Extract") /\ num_gpus > 1) =>
        \A src \in last.target : \A v \in Vertices :
            h_out["h_degrees"][v + 1] =
                Cell(partition_table[v], "degrees", src, ConvertionTable(v) + 1)

\* What Release can change.
ReleaseState == <<data_slices, ds, arr, pending, cur_dev, leaked, h_out>>

\* C4: a Release(target) that follows at once a Release(target) that returned
\* success changes nothing (so it frees nothing, and nothing twice) and,
\* unless the environment fails its device selection, returns success; for
\* Problem::Release and for DataSlice::Release, for every target.
C4_ReleaseIdempotent ==
    [][(/\ last.op \in {"Release", "SliceRelease"}
        /\ last.ok
        /\ last'.op = last.op
        /\ last'.target = last.target
        /\ last'.gpu = last.gpu)
       => (/\ ReleaseState' = ReleaseState
           /\ last'.fault = NoFault => last'.ok)]_vars

\* C4's case: Release(HOST) repeated on a Problem that still has its array
\* of slices, so that the second call walks the slices again.
C4_Witness ==
    /\ last.op = "Release"
    /\ last.again
    /\ last.target = {HOST}
    /\ data_slices
    /\ num_gpus > 1

\* C5: when Problem::Release(target) has returned success, no working array
\* of any slice is allocated at a location of target.
C5_ReleaseFreesTarget ==
    Succeeded("Release") =>
        \A g \in ActiveGpus : \A a \in ArrayNames : \A loc \in last.target :
            ~arr[g][a][loc].alloc

\* C6: the array of slices is never freed while a device still holds the
\* device copy of its slice (the storage GetPointer(DEVICE) reports).
C6_FreedOnlyWhenDevicesEmpty ==
    \A x \in leaked : x[2] # "data_slices"

\* C6's case: a Release(HOST) on two devices that freed the array of slices.
C6_Witness ==
    /\ After("Release")
    /\ last.target = {HOST}
    /\ num_gpus > 1
    /\ ~data_slices
    /\ faults > 0

\* Problem::Init returned after an allocation failed on device 1 of 2.
AllocFaultOnDevice1 ==
    /\ After("Init")
    /\ num_gpus = 2
    /\ last.fault[1] = 1
    /\ last.fault[2] \in {2} \cup (4 .. (NumArrays + 3))

\* Slice g is what a successful DataSlice::Init(target) makes of it.
FullyInitialized(g, target) ==
    /\ ds[g].h
    /\ ds[g].init
    /\ DEVICE \in target => ds[g].d /\ ds[g].topo
    /\ \A a \in ArrayNames : \A loc \in target :
           arr[g][a][loc].alloc /\ Len(arr[g][a][loc].data) = SubNodes(g)

\* The Problem holds nothing any more: no slice array, no slice at either
\* location, no working array.
NothingHeld ==
    /\ ~data_slices
    /\ \A g \in Gpus : ~ds[g].h /\ ~ds[g].d /\ Allocated(arr[g]) = {}

\* C7: when an allocation fails on device 1 of 2 in Problem::Init, Init
\* returns a failure and slice 0 is fully initialized; and the Release() that
\* follows (all locations, nothing failing in it) returns success, leaves the
\* Problem holding nothing and loses track of no storage.
C7_FailedInitReleasable ==
    /\ [](AllocFaultOnDevice1 => ~last.ok /\ FullyInitialized(0, last.target))
    /\ [][(/\ AllocFaultOnDevice1
           /\ last'.op = "Release"
           /\ last'.target = LOCATION_ALL
           /\ last'.fault = NoFault)
          => (last'.ok /\ NothingHeld' /\ leaked' = leaked)]_vars

\* C7's case: the allocation of a working array failed on device 1 after
\* others of its arrays had been allocated.
C7_Witness ==
    /\ AllocFaultOnDevice1
    /\ Allocated(arr[1]) # {}
    /\ \E a \in ArrayNames : \A loc \in Locs : ~arr[1][a][loc].alloc

\* C8: when the Reset of device k failed, Problem::Reset returned a failure
\* and every device before k is in the reset state.
C8_ResetFailsFast ==
    (After("Reset") /\ LoopFault(last.fault)) =>
        /\ ~last.ok
        /\ \A j \in ActiveGpus : \A loc \in last.target :
               j < last.fault[1] => Canonical(j, loc)

\* The calls of the lifecycle that return a status.
LifecycleCalls ==
    {"Init", "Reset", "Extract", "Release",
     "HITSInit", "HITSReset", "HITSExtract"}

\* C9: a lifecycle call in which a step failed has returned a failure.
C9_FailuresReturned ==
    (last.op \in LifecycleCalls /\ last.fault # NoFault) => ~last.ok

\* C10: after destruction no array remains allocated at any location, and
\* the destructor has used no pointer that was never assigned.
C10_DestructionReleasesAll ==
    After("HITSDestroy") =>
        /\ \A g \in Gpus : \A a \in HITSArrayNames : \A loc \in Locs :
               ~hits.arrays[g][a][loc].alloc
        /\ ~hits.dangling

FailedInSliceInit ==
    After("Init") /\ last.fault[1] >= 0 /\ last.fault[2] \in 3 .. (NumArrays + 4)
FailedInSliceReset ==
    After("Reset") /\ last.fault[1] >= 0 /\ last.fault[2] \in 2 .. (NumArrays + 1)

\* The number, in the code's order, of the array whose step failed: 0 when
\* the call failed before its first array, NumArrays + 1 when after its last.
FailedArray ==
    IF After("Init") THEN last.fault[2] - 3 ELSE last.fault[2] - 1

\* C13: a call that failed inside DataSlice::Init or DataSlice::Reset has
\* returned the failure; the arrays before the failing step have their
\* storage at target; no later step has run (Init: no later array is
\* allocated and the topology has not moved; Reset: the later arrays, the
\* queued fills and what was allocated before are as they were); and the
\* Release(LOCATION_ALL) of the slice that follows returns success and
\* leaves none of its arrays allocated.
C13_SliceFailureReleasable ==
    /\ []((FailedInSliceInit \/ FailedInSliceReset) =>
            /\ ~last.ok
            /\ \A a \in ArrayNames : \A loc \in last.target :
                   ArrayIdx(a) < FailedArray =>
                       /\ HasPointer(arr[last.fault[1]][a][loc])
                       /\ Len(arr[last.fault[1]][a][loc].data) >= SubNodes(last.fault[1]))
    /\ [](FailedInSliceInit =>
            /\ ~ds[last.fault[1]].topo
            /\ \A a \in ArrayNames : \A loc \in Locs :
                   ArrayIdx(a) > FailedArray => ~arr[last.fault[1]][a][loc].alloc)
    /\ [][FailedInSliceReset' =>
            /\ Allocated(arr[last'.fault[1]]) \subseteq Allocated(arr'[last'.fault[1]])
            /\ pending'[last'.fault[1]] = pending[last'.fault[1]]
            /\ \A a \in ArrayNames :
                   ArrayIdx(a) > FailedArray' =>
                       arr'[last'.fault[1]][a] = arr[last'.fault[1]][a]]_vars
    /\ [][(/\ FailedInSliceInit \/ FailedInSliceReset
           /\ last'.op = "SliceRelease"
           /\ last'.gpu = last.fault[1]
           /\ last'.target = LOCATION_ALL
           /\ last'.fault = NoFault)
          => (last'.ok /\ Allocated(arr'[last.fault[1]]) = {})]_vars

\* C13's case: an EnsureSize_ of DataSlice::Reset failed after earlier ones
\* had allocated storage on the device.
C13_Witness ==
    /\ FailedInSliceReset
    /\ FailedArray > 1
    /\ last.target = {DEVICE}
    /\ arr[last.fault[1]][Arrays[1]][DEVICE].alloc
    /\ ~arr[last.fault[1]][Arrays[NumArrays]][DEVICE].alloc

\* C19: a DataSlice::Release(target) that returned success has left each of
\* the slice's eight arrays empty (no storage, no cells) at every location of
\* target and exactly as it was at every other location; the other slices'
\* arrays are as they were.
C19_ReleaseFreesExactlyTarget ==
    [][(last'.op = "SliceRelease" /\ last'.ok) =>
          /\ \A a \in ArrayNames : \A loc \in Locs :
                 arr'[last'.gpu][a][loc] =
                     IF loc \in last'.target THEN NoBuf ELSE arr[last'.gpu][a][loc]
          /\ \A g \in Gpus : g # last'.gpu => arr'[g] = arr[g]]_vars

\* C19's case: a slice released on the device only, whose arrays keep their
\* cells on the host.
C19_Witness ==
    /\ Succeeded("SliceRelease")
    /\ last.target = {DEVICE}
    /\ ~last.again
    /\ SubNodes(last.gpu) > 1
    /\ Canonical(last.gpu, HOST)
    /\ \A a \in ArrayNames : arr[last.gpu][a][DEVICE] = NoBuf

\* C15: when Problem::Reset has returned success, no device has a fill of the
\* call still queued on its stream.
C15_ResetSynchronizesAll ==
    Succeeded("Reset") => \A g \in ActiveGpus : pending[g] = <<>>

\* C17: when Init has returned success there is one initialized DataSlice
\* for each configured device: for every g in 0..num_gpus-1 the slice exists
\* and all its arrays are allocated on the device.
C17_InitCreatesEverySlice ==
    Succeeded("HITSInit") =>
        \A g \in ActiveGpus :
            /\ hits.slice[g] = "object"
            /\ hits.d_slice[g] = "alloc"
            /\ \A a \in HITSArrayNames : hits.arrays[g][a][DEVICE].alloc

C12_ResetRestoresAfterRun ==
    (Succeeded("Reset") /\ writes > 0) =>
        \A g \in ActiveGpus : \A loc \in last.target : Canonical(g, loc)

\* C16: Reset and Extract are applied only to a Problem whose slices are all
\* initialized and not released, and no use of a slice (a kernel, a swap, an
\* Extract) comes straight after Init, with no Reset between.
C16_StrictLifecycle ==
    /\ [](last.op \in {"Reset", "Extract"} =>
            data_slices /\ \A g \in ActiveGpus : ds[g].h /\ ds[g].init)
    /\ [][last'.op \in {"Enactor", "Swap", "Extract"} => last.op # "Init"]_vars

\* C20: when Reset has returned success, every working array of every slice
\* has, at each location of the target, storage of at least the partition's
\* current vertex count; the call left storage that was large enough as it
\* was (same length, same owner, the cells past the vertex count untouched)
\* and gave an array with too little or no storage exactly the vertex count.
C20_ResetEnsuresCapacity ==
    /\ [](Succeeded("Reset") =>
            \A g \in ActiveGpus : \A a \in ArrayNames : \A loc \in last.target :
                BufEnough(arr[g][a][loc], SubNodes(g)))
    /\ [][(last'.op = "Reset" /\ last'.ok /\ last' # last) =>
            \A g \in ActiveGpus : \A a \in ArrayNames : \A loc \in last'.target :
                IF BufEnough(arr[g][a][loc], SubNodes(g))
                THEN /\ Len(arr'[g][a][loc].data) = Len(arr[g][a][loc].data)
                     /\ arr'[g][a][loc].alloc = arr[g][a][loc].alloc
                     /\ arr'[g][a][loc].set = arr[g][a][loc].set
                     /\ \A i \in (SubNodes(g) + 1) .. Len(arr[g][a][loc].data) :
                            arr'[g][a][loc].data[i] = arr[g][a][loc].data[i]
                ELSE /\ arr'[g][a][loc].alloc
                     /\ Len(arr'[g][a][loc].data) = SubNodes(g)]_vars

\* C20's case: Init sized the arrays of the two slices to two vertices in
\* all; after a repartition and a Reset both slices hold two cells, so one
\* was grown and the other, now larger than its partition, was kept.
C20_Witness ==
    /\ Succeeded("Reset")
    /\ num_gpus = 2
    /\ org_nodes = 2
    /\ SubNodes(1) = 2
    /\ \E loc \in last.target : \A g \in ActiveGpus : \A a \in ArrayNames :
           arr[g][a][loc].alloc /\ Len(arr[g][a][loc].data) = 2

\* The size of an Array1D: the cells of its longer side.
SideLen(b) == IF HasPointer(b) THEN Len(b.data) ELSE 0
ArraySize(A) ==
    IF SideLen(A[HOST]) >= SideLen(A[DEVICE])
    THEN SideLen(A[HOST]) ELSE SideLen(A[DEVICE])

\* A step that changes the size of some array is a call of Init or of Reset.
SizesChangeOnlyInInitAndReset ==
    (\E g \in Gpus : \E a \in ArrayNames : ArraySize(arr'[g][a]) # ArraySize(arr[g][a]))
        => (last'.op \in {"Init", "Reset"} /\ last' # last)

FillHasStorage(g, fill) ==
    /\ arr[g][fill.array][DEVICE].alloc
    /\ Len(arr[g][fill.array][DEVICE].data) >= fill.n

\* C21: every fill queued on a device's stream was submitted after the
\* storage of its array was ensured, so it has allocated storage of at least
\* the cells it writes, whatever the other devices' streams have run; and
\* when the stream runs, every queued fill has taken effect on its cells.
C21_FillsOrderedAfterAllocation ==
    /\ [](\A g \in Gpus : \A k \in 1 .. Len(pending[g]) :
            FillHasStorage(g, pending[g][k]))
    /\ [][\A g \in Gpus :
            (pending[g] # <<>> /\ pending'[g] = <<>>
                /\ last'.op = "StreamStep" /\ last'.gpu = g) =>
            \A k \in 1 .. Len(pending[g]) : \A i \in 1 .. pending[g][k].n :
                arr'[g][pending[g][k].array][DEVICE].data[i] =
                    ResetValue(pending[g][k].array)]_vars

\* C21's case: the fills of device 0 ran on arrays of two cells while both
\* slices of a two-vertex graph hold two cells on the device, so a Reset
\* had grown or allocated storage before it submitted the fills.
C21_Witness ==
    /\ After("StreamStep")
    /\ last.gpu = 0
    /\ num_gpus = 2
    /\ org_nodes = 2
    /\ SubNodes(0) = 2
    /\ \A g \in ActiveGpus : \A a \in ArrayNames :
           Len(arr[g][a][DEVICE].data) = 2
    /\ \A a \in ArrayNames : \A i \in 1 .. 2 :
           arr[0][a][DEVICE].data[i] = ResetValue(a)

\* The slices whose DataSlice::Init ran to its end in the Init that returned.
InitCompleted(g) == g \in ActiveGpus /\ (last.ok \/ (last.fault[1] >= 0 /\ g < last.fault[1]))

\* C22: when Problem::Init has returned, a slice whose DataSlice::Init ran to
\* its end has its topology on the device exactly when the target includes
\* the device; a topology is on the device only where all eight arrays are
\* allocated at every location of the target; a host-only target moved none.
C22_TopologyMovedAfterAllocations ==
    After("Init") =>
        \A g \in Gpus :
            /\ InitCompleted(g) => (ds[g].topo <=> DEVICE \in last.target)
            /\ ds[g].topo =>
                   /\ DEVICE \in last.target
                   /\ \A a \in ArrayNames : \A loc \in last.target :
                          arr[g][a][loc].alloc

\* C22's case: Init for the device failed in an Allocate of slice 1; slice
\* 0, whose eight arrays are allocated, has its topology on the device, and
\* slice 1 has not.
C22_Witness ==
    /\ After("Init")
    /\ ~last.ok
    /\ DEVICE \in last.target
    /\ last.fault[1] = 1
    /\ last.fault[2] \in 4 .. (NumArrays + 3)
    /\ ds[0].topo
    /\ ~ds[1].topo
    /\ \E a \in ArrayNames : arr[1][a][DEVICE].alloc

\* A step that is a call of Problem::Init, of Problem::Release (or the
\* destructor's Release).
InitStep == last'.op = "Init" /\ (last' # last \/ faults' # faults)
ReleaseStep == last'.op \in {"Release", "Destroy"}

\* Problem::Release on a Problem whose data_slices is NULL returns success
\* and changes nothing.
ReleaseOfNothing ==
    (~data_slices /\ ReleaseStep) =>
        /\ last'.ok
        /\ UNCHANGED <<config, data_slices, ds, arr, pending, cur_dev, h_out,
                       leaked, writes, faults>>

\* data_slices changes only in an Init, which sets it, and in a Release that
\* includes the host, which clears it.
SlicesSetByInitClearedByRelease ==
    /\ (~data_slices /\ data_slices') => InitStep
    /\ (data_slices /\ ~data_slices') => (ReleaseStep /\ HOST \in last'.target)

\* C23 as stated: Release on a NULL data_slices returns success and changes
\* nothing; data_slices is NULL after construction, non-NULL from the start
\* of any Init, and NULL again only by a Release that frees the array.
C23_SlicesHeldFromInitStart ==
    /\ [][ReleaseOfNothing]_vars
    /\ [](After("Construct") => ~data_slices)
    /\ [][InitStep => data_slices']_vars
    /\ [][SlicesSetByInitClearedByRelease]_vars

\* C23, amended: Release on a NULL data_slices returns success and changes
\* nothing; data_slices is NULL after construction, non-NULL from an Init
\* that got past BaseProblem::Init (an Init that failed there leaves it
\* NULL), and NULL again only by a Release that frees the array.
C23_SlicesHeldFromInitPastBase ==
    /\ [][ReleaseOfNothing]_vars
    /\ [](After("Construct") => ~data_slices)
    /\ [][InitStep => (data_slices' <=> last'.fault # BaseFault)]_vars
    /\ [][SlicesSetByInitClearedByRelease]_vars

\* C23's case: Release was called again on a Problem whose array of slices
\* an earlier Release had freed (storage that Release lost is the trace of
\* the Init before it).
C23_Witness ==
    /\ After("Release")
    /\ last.again
    /\ ~data_slices
    /\ leaked # {}

\* Every cell the buffer old had is a cell of new, with the same value.
CellsKept(old, new) ==
    /\ Len(new.data) >= Len(old.data)
    /\ \A i \in 1 .. Len(old.data) : new.data[i] = old.data[i]

C25_ExtractReadsOnly ==
    [][last'.op \in {"Extract", "HITSExtract"} =>
          /\ \A g \in Gpus : \A a \in ArrayNames :
                 arr'[g][a][DEVICE] = arr[g][a][DEVICE]
          /\ \A g \in Gpus : \A a \in HITSArrayNames :
                 hits'.arrays[g][a][DEVICE] = hits.arrays[g][a][DEVICE]
          /\ pending' = pending
          /\ (last'.again /\ last'.ok) => h_out' = h_out]_vars

====
